---- MODULE Spec2Model ----
(***************************************************************************)
(* Model of variants2proteins.py (FRED-2/Fred2-Apps):                      *)
(*   - get_type, the allele-length classifier;                             *)
(*   - read_variant_effect_predictor, the VEP annotation reader;           *)
(*   - main, the command-line driver with its filter chain.                *)
(*                                                                         *)
(* Text is modelled as sequences.  A string that the code inspects by      *)
(* character (alleles, position fields, the reference selector) is a       *)
(* sequence of one-character strings.  A tab-separated line is the         *)
(* sequence of its columns, a comma-separated INFO block the sequence of   *)
(* its sub-strings, a pipe-separated sub-string the sequence of its        *)
(* fields and an ampersand-joined consequence field the sequence of its    *)
(* terms: str.split is applied where the text is written down, and the     *)
(* code's len / slicing / indexing / unpacking act on these sequences.     *)
(***************************************************************************)
EXTENDS Integers, Sequences, FiniteSets, TLC

VARIABLES
    \* ---- read_variant_effect_predictor -------------------------------
    gene_filter,    \* the gene_filter argument: [isNone, ids]
    pc,             \* position in read_variant_effect_predictor
    i,              \* enumerate index of the current line (-1: none yet)
    l,              \* the current line
    ref,            \* REF column of the current line
    alt,            \* ALT column of the current line
    info,           \* info.split(","): the sub-strings of the current line
    k,              \* number of sub-strings of info already iterated
    nsub,           \* number of sub-strings the file has held so far
    coding,         \* transcript id -> MutationSyntax, for the current line
    isSynonymous,   \* the per-line synonymous flag
    vars,           \* the list of Variant objects built so far
    warnings,       \* line indices passed to logging.warning
    exc,            \* exception that left the function ("none" if none)
    result,         \* what the caller receives: [returned, value]
    vtype,          \* value returned by a stand-alone call of get_type
    \* ---- main ---------------------------------------------------------
    args,           \* parsed command line
    mpc,            \* position in main
    martDB,         \* endpoint handed to MartsAdapter
    opened,         \* input files opened so far
    protein_ids,    \* lines of the gene filter file
    variants,       \* the variant sequence main works on
    stderr,         \* messages written to sys.stderr
    ret,            \* main's return value ("none" while running)
    mexc,           \* exception that left main ("none" if none)
    generated       \* arguments of generate_transcripts_from_variants calls

pvars == <<gene_filter, pc, i, l, ref, alt, info, k, nsub, coding,
           isSynonymous, vars, warnings, exc, result, vtype>>
mvars == <<args, mpc, martDB, opened, protein_ids, variants, stderr, ret,
           mexc, generated>>
allvars == <<pvars, mvars>>

-----------------------------------------------------------------------------
(* Bounds of the model *)

\* longest allele string drawn for get_type
MaxAllele == 3
\* lines in a VEP file
MaxLines == 2
\* annotation sub-strings in a VEP file (over all its lines)
MaxSubs == 2
\* variants a reader hands to main
MaxVariants == 2

(* Constants of the program *)

\* columns unpacked from a line (line 87)
LineColumns == 8
\* pipe fields unpacked from a sub-string (line 95)
UnpackCount == 16
\* zero-based index of HGNC_ID among the pipe fields (line 96)
HgncIndex == 22
\* length of a codon in get_type (lines 64, 69)
Codon == 3

-----------------------------------------------------------------------------
(* Python primitives *)

Min(a, b) == IF a <= b THEN a ELSE b

\* s[:n]
Take(s, n) == SubSeq(s, 1, Min(n, Len(s)))

\* c in s, for a character c and a string s
Contains(s, c) == \E j \in 1..Len(s) : s[j] = c

\* s.split(sep)[0]: the text before the first separator
SplitFirst(s, sep) ==
    LET at == {j \in 1..Len(s) : s[j] = sep}
    IN  IF at = {} THEN s
        ELSE SubSeq(s, 1, (CHOOSE j \in at : \A m \in at : j <= m) - 1)

Digits == {"0", "1", "2", "3", "4", "5", "6", "7", "8", "9"}

DigitVal(c) ==
    CASE c = "0" -> 0 [] c = "1" -> 1 [] c = "2" -> 2 [] c = "3" -> 3
      [] c = "4" -> 4 [] c = "5" -> 5 [] c = "6" -> 6 [] c = "7" -> 7
      [] c = "8" -> 8 [] c = "9" -> 9

\* int(s) raises ValueError unless s is a non-empty string of digits
\* (signs, blanks and underscores do not occur in the strings drawn here)
IntRaises(s) == Len(s) = 0 \/ \E j \in 1..Len(s) : s[j] \notin Digits

RECURSIVE IntOf(_)
IntOf(s) == IF Len(s) = 0 THEN 0
            ELSE 10 * IntOf(SubSeq(s, 1, Len(s) - 1)) + DigitVal(s[Len(s)])

\* str.upper on one character (the letters that occur in the inputs)
UpperChar(c) ==
    CASE c = "a" -> "A" [] c = "c" -> "C" [] c = "g" -> "G" [] c = "t" -> "T"
      [] c = "h" -> "H" [] c = "r" -> "R" [] OTHER -> c

\* str.upper
Upper(s) == [j \in 1..Len(s) |-> UpperChar(s[j])]

\* all sequences over S of length 0..n
SeqsUpTo(S, n) == UNION {[1..m -> S] : m \in 0..n}

\* all sequences over S of length 1..n
NonEmptySeqsUpTo(S, n) == UNION {[1..m -> S] : m \in 1..n}


-----------------------------------------------------------------------------
(* get_type (lines 57-73) *)

\* get_type with the two frameshift tests inverted: the fault C1 must detect
get_type_inverted(r, a) ==
    IF Len(r) = 1 /\ Len(a) = 1 THEN "SNP"
    ELSE IF Len(r) > 0 /\ Len(a) = 0
         THEN (IF Len(r) % Codon = 0 THEN "FSDEL" ELSE "DEL")
    ELSE IF Len(r) = 0 /\ Len(a) > 0
         THEN (IF Len(a) % Codon = 0 THEN "FSINS" ELSE "INS")
    ELSE "UNKNOWN"

get_type(r, a) ==
    IF Len(r) = 1 /\ Len(a) = 1 THEN "SNP"
    ELSE IF Len(r) > 0 /\ Len(a) = 0
         THEN (IF Len(r) % Codon = 0 THEN "DEL" ELSE "FSDEL")
    ELSE IF Len(r) = 0 /\ Len(a) > 0
         THEN (IF Len(a) % Codon = 0 THEN "INS" ELSE "FSINS")
    ELSE "UNKNOWN"

\* alphabet of the allele strings drawn for get_type
Bases == {"A", "t"}

Alleles == SeqsUpTo(Bases, MaxAllele)

-----------------------------------------------------------------------------
(* The inputs of read_variant_effect_predictor *)

\* lines 75-78
coding_types ==
    {"3_prime_UTR_variant", "5_prime_UTR_variant", "start_lost", "stop_gained",
     "frameshift_variant", "inframe_insertion", "inframe_deletion",
     "missense_variant", "protein_altering_variant", "splice_region_variant",
     "incomplete_terminal_codon_variant", "stop_retained_variant",
     "synonymous_variant", "coding_sequence_variant"}

\* A sub-string with n pipe fields.  Field positions (one-based here,
\* zero-based in the code) follow the unpacking of line 95 and the index of
\* line 96: 2 Consequence, 6 Feature_type, 7 Feature, 14 CDS_position,
\* 15 Protein_position, 23 HGNC_ID.  The other fields are empty.
MkSub(n, var_type, transcript_type, transcript_id, transcript_pos, prot_pos, hgnc) ==
    [j \in 1..n |->
        CASE j = 2  -> var_type
          [] j = 6  -> <<transcript_type>>
          [] j = 7  -> <<transcript_id>>
          [] j = 14 -> transcript_pos
          [] j = 15 -> prot_pos
          [] j = HgncIndex + 1 -> <<hgnc>>
          [] OTHER  -> <<>>]

\* Consequence fields that hold a term of coding_types: one coding term, and
\* a non-coding and the synonymous term joined by "&"
CodingConsequences ==
    {<<"missense_variant">>, <<"intron_variant", "synonymous_variant">>}

\* (CDS_position, Protein_position) pairs as VEP writes them: both absent,
\* a range with a number, both uncertain
Positions ==
    {<< <<>>, <<>> >>,
     << <<"1", "5", "-", "1", "7">>, <<"5">> >>,
     << <<"?", "-", "3">>, <<"?", "-", "1">> >>}

\* a transcript and the HGNC id of its gene
Transcripts == {<<"ENST1", "HGNC:1100">>, <<"ENST2", "HGNC:9999">>}

\* numbers of pipe fields of the sub-strings that lack field HgncIndex:
\* too few to unpack (1, 15) and enough to unpack (16, 22)
ShortCounts == {1, UnpackCount - 1, UnpackCount, HgncIndex}

\* The sub-strings the lines are made of: the short ones; the Transcript
\* annotations with a coding consequence; a Transcript annotation without a
\* coding term; one with a CDS position and no protein position; one with a
\* CDS position and an uncertain protein position; a regulatory feature.
SubStrings ==
    {MkSub(n, <<"missense_variant">>, "Transcript", "ENST1",
           <<"1", "5">>, <<"5">>, "HGNC:1100") : n \in ShortCounts}
    \cup
    {MkSub(HgncIndex + 1, c, "Transcript", t[1], p[1], p[2], t[2]) :
        c \in CodingConsequences, t \in Transcripts, p \in Positions}
    \cup
    {MkSub(HgncIndex + 1, <<"intron_variant">>, "Transcript", "ENST1",
           <<"1", "5", "-", "1", "7">>, <<"5">>, "HGNC:1100"),
     MkSub(HgncIndex + 1, <<"missense_variant">>, "Transcript", "ENST1",
           <<"1", "5">>, <<>>, "HGNC:1100"),
     MkSub(HgncIndex + 1, <<"missense_variant">>, "Transcript", "ENST1",
           <<"1", "5">>, <<"?">>, "HGNC:1100"),
     MkSub(HgncIndex + 1, <<"intron_variant", "synonymous_variant">>,
           "RegulatoryFeature", "ENSR1", <<>>, <<>>, "HGNC:1100")}

\* (REF, ALT) columns of the record lines
AllelePairs == { << <<"a">>, <<"G">> >>, << <<"A", "T">>, <<"g", "c">> >> }

\* The columns of a record line: l.strip().split("\t")
Columns(r, a, inf) ==
    << <<"1">>, <<"1", "0", "0">>, <<"rs1">>, r, a, <<".">>, <<"PASS">>, inf >>

\* A line is [hash, cols]: whether its first character is "#", and the
\* columns of l.strip().split("\t").  A blank line strips to the empty
\* string, whose split is one empty column.
CommentLine == [hash |-> TRUE, cols |-> << <<"#CHROM">>, <<"POS">> >>]

BlankLine == [hash |-> FALSE, cols |-> << <<>> >>]

\* lines with fewer than LineColumns columns: one column, and a record whose
\* INFO column is empty (the trailing tab is stripped)
ShortLines ==
    {[hash |-> FALSE, cols |-> Take(Columns(<<"a">>, <<"G">>, <<>>), n)] :
        n \in {1, LineColumns - 1}}

\* record lines holding at most n sub-strings
RecordLines(n) ==
    {[hash |-> FALSE, cols |-> Columns(p[1], p[2], inf)] :
        p \in AllelePairs, inf \in NonEmptySeqsUpTo(SubStrings, n)}

Lines(n) == {CommentLine, BlankLine} \cup ShortLines \cup RecordLines(n)

\* the gene_filter argument: left at its default None, or a list
GeneFilters ==
    {[isNone |-> TRUE, ids |-> {}],
     [isNone |-> FALSE, ids |-> {}],
     [isNone |-> FALSE, ids |-> {"HGNC:1100"}]}

-----------------------------------------------------------------------------
(* The steps of read_variant_effect_predictor's loop body *)

\* line 84 skipping every line it cannot unpack: the fault C9 must detect
SkipLineLenient(line) ==
    line.hash \/ line.cols = << <<>> >> \/ Len(line.cols) < LineColumns

\* line 84: the lines the loop skips
SkipLine(line) == line.hash \/ line.cols = << <<>> >>

\* line 87: unpacking l.strip().split("\t")[:8] into eight names
UnpackLineRaises(line) == Len(Take(line.cols, LineColumns)) # LineColumns

\* line 95: unpacking co.strip().split("|")[:16] into sixteen names raises
\* ValueError, which line 97 catches
UnpackRaises(co) == Len(Take(co, UnpackCount)) # UnpackCount

\* line 96: co.strip().split("|")[22] raises IndexError, which nothing catches
IndexRaises(co) == Len(co) < HgncIndex + 1

var_type(co) == co[2]
transcript_type(co) == co[6][1]
transcript_id(co) == co[7][1]
transcript_pos(co) == co[14]
prot_pos(co) == co[15]
HGNC_ID(co) == co[HgncIndex + 1][1]

\* line 103, second operand: HGNC_ID not in gene_filter raises TypeError
\* when gene_filter is None
FilterRaises(gf) == gf.isNone

\* line 103: transcript_type != "Transcript" or
\*           (HGNC_ID not in gene_filter and gene_filter)
Discarded(co, gf) ==
    \/ transcript_type(co) # "Transcript"
    \/ (HGNC_ID(co) \notin gf.ids /\ gf.ids # {})

\* line 107 with all() for any(): the fault C4 must detect
IsCodingAll(co) == \A j \in 1..Len(co[2]) : co[2][j] \in coding_types

\* line 107: any(t in coding_types for t in var_type.split("&"))
IsCoding(co) == \E j \in 1..Len(var_type(co)) : var_type(co)[j] \in coding_types

\* line 111: transcript_pos != "" and '?' not in transcript_pos
HasPosition(co) == transcript_pos(co) # <<>> /\ ~Contains(transcript_pos(co), "?")

\* line 112 without the shift to zero-based: the fault C3 must detect
TranscriptCoordOneBased(co) == IntOf(SplitFirst(co[14], "-"))

\* line 112: int(transcript_pos.split("-")[0]) - 1
TranscriptCoord(co) == IntOf(SplitFirst(transcript_pos(co), "-")) - 1

\* line 112: -1 if prot_pos == "" else int(prot_pos.split("-")[0]) - 1
ProteinCoord(co) ==
    IF prot_pos(co) = <<>> THEN -1 ELSE IntOf(SplitFirst(prot_pos(co), "-")) - 1

\* line 112: the int() calls that raise ValueError outside the try block
CoordRaises(co) ==
    \/ IntRaises(SplitFirst(transcript_pos(co), "-"))
    \/ (prot_pos(co) # <<>> /\ IntRaises(SplitFirst(prot_pos(co), "-")))

\* line 112: MutationSyntax(transcript_id, tpos, ppos, co, "", geneID=HGNC_ID)
MutationSyntax(co) ==
    [transID |-> transcript_id(co), transPos |-> TranscriptCoord(co),
     protPos |-> ProteinCoord(co), cds |-> co, aa |-> "", geneID |-> HGNC_ID(co)]

\* line 112: coding[transcript_id] = ...
Store(map, co) ==
    [t \in DOMAIN map \cup {transcript_id(co)} |->
        IF t = transcript_id(co) THEN MutationSyntax(co) ELSE map[t]]

\* line 115: any(t == "synonymous_variant" for t in var_type.split("&"))
Synonymous(co) ==
    \E j \in 1..Len(var_type(co)) : var_type(co)[j] = "synonymous_variant"

\* line 117: Variant(var_id, get_type(ref, alt), chrom, int(gene_pos),
\*                   ref.upper(), alt.upper(), coding, False, isSynonymous)
Variant(line, r, a, map, syn) ==
    [id |-> line.cols[3], type |-> get_type(r, a), chrom |-> line.cols[1],
     genomePos |-> IntOf(line.cols[2]), ref |-> Upper(r), obs |-> Upper(a),
     coding |-> map, isHomozygous |-> FALSE, isSynonymous |-> syn]

EmptyMap == [t \in {} |-> 0]

NoResult == [returned |-> FALSE, value |-> <<>>]

-----------------------------------------------------------------------------
(* Values the variables hold while their function is not running *)

NoLine == [hash |-> FALSE, cols |-> <<>>]

NoArgs == [reference |-> <<>>, vcf |-> "None", proteins |-> "None",
           type |-> "VEP", filterSNP |-> FALSE, filterINDEL |-> FALSE,
           filterFSINDEL |-> FALSE]

ReaderIdle ==
    /\ gene_filter = [isNone |-> TRUE, ids |-> {}]
    /\ pc = "idle" /\ i = -1 /\ l = NoLine /\ info = <<>> /\ k = 0 /\ nsub = 0
    /\ coding = EmptyMap /\ isSynonymous = FALSE /\ vars = <<>>
    /\ warnings = <<>> /\ exc = "none" /\ result = NoResult

MainIdle ==
    /\ args = NoArgs /\ mpc = "idle" /\ martDB = "none" /\ opened = {}
    /\ protein_ids = <<>> /\ variants = <<>> /\ stderr = <<>> /\ ret = "none"
    /\ mexc = "none" /\ generated = <<>>

-----------------------------------------------------------------------------
(* get_type called on its own (lines 57-73) *)

InitType ==
    /\ ref \in Alleles /\ alt \in Alleles /\ vtype = "none"
    /\ ReaderIdle /\ MainIdle

Classify ==
    /\ vtype = "none"
    /\ vtype' = get_type(ref, alt)
    /\ UNCHANGED <<gene_filter, pc, i, l, ref, alt, info, k, nsub, coding,
                   isSynonymous, vars, warnings, exc, result, mvars>>

NextType == Classify

SpecType == InitType /\ [][NextType]_allvars

-----------------------------------------------------------------------------
(* read_variant_effect_predictor (lines 48-118) *)

InitVEP ==
    /\ gene_filter \in GeneFilters
    /\ pc = "loop" /\ i = -1 /\ l = NoLine
    /\ ref = <<>> /\ alt = <<>> /\ info = <<>> /\ k = 0 /\ nsub = 0
    /\ coding = EmptyMap /\ isSynonymous = FALSE
    /\ vars = <<>> /\ warnings = <<>> /\ exc = "none" /\ result = NoResult
    /\ vtype = "none"
    /\ MainIdle

\* an exception leaves the function: the with block closes the file and the
\* caller receives no list
Raise(e) ==
    /\ pc' = "raised"
    /\ exc' = e
    /\ UNCHANGED <<coding, isSynonymous, vars, warnings, result>>

\* lines 81-89: the loop takes the next line of the file
ReadLine ==
    /\ pc = "loop"
    /\ i + 1 < MaxLines
    /\ \E line \in Lines(MaxSubs - nsub) :
        /\ i' = i + 1
        /\ l' = line
        /\ IF SkipLine(line)
           THEN /\ pc' = "loop"
                /\ UNCHANGED <<ref, alt, info, k, nsub, coding, isSynonymous, exc>>
           ELSE IF UnpackLineRaises(line)
           THEN /\ pc' = "raised"
                /\ exc' = "ValueError"
                /\ UNCHANGED <<ref, alt, info, k, nsub, coding, isSynonymous>>
           ELSE /\ ref' = line.cols[4]
                /\ alt' = line.cols[5]
                /\ info' = line.cols[8]
                /\ k' = 0
                /\ nsub' = nsub + Len(line.cols[8])
                /\ coding' = EmptyMap
                /\ isSynonymous' = FALSE
                /\ pc' = "subs"
                /\ exc' = exc
    /\ UNCHANGED <<gene_filter, vars, warnings, result, vtype, mvars>>

\* lines 91-115: one iteration of the loop over info.split(",")
NextSub ==
    /\ pc = "subs"
    /\ k < Len(info)
    /\ LET co == info[k + 1]
       IN  IF UnpackRaises(co)
           THEN \* lines 97-99
                /\ warnings' = Append(warnings, i)
                /\ UNCHANGED <<pc, exc, coding, isSynonymous, vars, result>>
           ELSE IF IndexRaises(co)
           THEN Raise("IndexError")
           ELSE IF transcript_type(co) = "Transcript" /\ FilterRaises(gene_filter)
           THEN Raise("TypeError")
           ELSE IF Discarded(co, gene_filter)
           THEN \* line 104
                UNCHANGED <<pc, exc, coding, isSynonymous, vars, warnings, result>>
           ELSE IF IsCoding(co) /\ HasPosition(co) /\ CoordRaises(co)
           THEN Raise("ValueError")
           ELSE /\ coding' = IF IsCoding(co) /\ HasPosition(co)
                             THEN Store(coding, co) ELSE coding
                /\ isSynonymous' = Synonymous(co)
                /\ UNCHANGED <<pc, exc, vars, warnings, result>>
    /\ k' = k + 1
    /\ UNCHANGED <<gene_filter, i, l, ref, alt, info, nsub, vtype, mvars>>

\* lines 116-117: the sub-strings of the line are exhausted
EndLine ==
    /\ pc = "subs"
    /\ k = Len(info)
    /\ vars' = IF DOMAIN coding # {}
               THEN Append(vars, Variant(l, ref, alt, coding, isSynonymous))
               ELSE vars
    /\ pc' = "loop"
    /\ UNCHANGED <<gene_filter, i, l, ref, alt, info, k, nsub, coding,
                   isSynonymous, warnings, exc, result, vtype, mvars>>

\* line 118: the file is exhausted
Return ==
    /\ pc = "loop"
    /\ result' = [returned |-> TRUE, value |-> vars]
    /\ pc' = "returned"
    /\ UNCHANGED <<gene_filter, i, l, ref, alt, info, k, nsub, coding,
                   isSynonymous, vars, warnings, exc, vtype, mvars>>

NextVEP == ReadLine \/ NextSub \/ EndLine \/ Return

SpecVEP == InitVEP /\ [][NextVEP]_allvars

-----------------------------------------------------------------------------
(* main (lines 121-245) *)

GRCH37 == <<"G", "R", "C", "H", "3", "7">>

GRCH38 == <<"G", "R", "C", "H", "3", "8">>

\* lines 45-46
MARTDBURL ==
    [key \in {GRCH37, GRCH38} |->
        IF key = GRCH37
        THEN "http://grch37.ensembl.org/biomart/martservice?query="
        ELSE "http://www.ensembl.org/biomart/martservice?query="]

\* values of --reference: the default GRCh38, a lower-case grch37, and hg19
References ==
    {<<"G", "R", "C", "h", "3", "8">>,
     <<"g", "r", "c", "h", "3", "7">>,
     <<"h", "g", "1", "9">>}

\* the command lines argparse accepts (lines 123-180); "None" is the default
\* of --vcf and --proteins
CommandLines ==
    [reference : References,
     vcf : {"None", "variants.vcf"},
     proteins : {"None", "genes.txt"},
     type : {"VEP", "ANNOVAR", "SNPEFF"},
     filterSNP : BOOLEAN, filterINDEL : BOOLEAN, filterFSINDEL : BOOLEAN]

\* Fred2.Core.Variant.VariationType
VariationType == {"SNP", "DEL", "INS", "FSDEL", "FSINS", "UNKNOWN"}

\* The lists a reader returns; the filter chain reads only the type of a
\* Variant, the other fields are left out
VariantLists == SeqsUpTo([type : VariationType], MaxVariants)

\* contents of the gene filter file
ProteinFiles == {<<>>, <<"HGNC:1100">>}

\* exceptions read_variant_effect_predictor lets through to main
\* (with gene_filter a list)
ReaderErrors == {"ValueError", "IndexError"}

\* line 182: MARTDBURL[args.reference.upper()] raises KeyError
LookupRaises(reference) == Upper(reference) \notin DOMAIN MARTDBURL

\* line 210
NotSNP(x) == x.type # "SNP"

\* lines 213-216
NotINDEL(x) == x.type \notin {"INS", "DEL", "FSDEL", "FSINS"}

\* line 219
NotFSINDEL(x) == x.type \notin {"FSDEL", "FSINS"}

\* line 225
NotUNKNOWN(x) == x.type # "UNKNOWN"

\* lines 209-219: the filters the flags select
\* (filter returns a list: the program is Python 2, see iterkeys on line 231)
SelectedFilters(a, vs) ==
    LET v1 == IF a.filterSNP THEN SelectSeq(vs, NotSNP) ELSE vs
        v2 == IF a.filterINDEL THEN SelectSeq(v1, NotINDEL) ELSE v1
    IN  IF a.filterFSINDEL THEN SelectSeq(v2, NotFSINDEL) ELSE v2

\* line 225 left out: the fault C7 must detect
RemoveNothing(vs) == vs

\* line 225
RemoveUnknown(vs) == SelectSeq(vs, NotUNKNOWN)

InitMain ==
    /\ args \in CommandLines
    /\ mpc = "start" /\ martDB = "none" /\ opened = {}
    /\ protein_ids = <<>> /\ variants = <<>> /\ stderr = <<>> /\ ret = "none"
    /\ mexc = "none" /\ generated = <<>>
    /\ ReaderIdle /\ ref = <<>> /\ alt = <<>> /\ vtype = "none"

\* line 182 with the endpoint looked up only when it is used, after the
\* inputs are read: the fault C10 must detect
CreateAdapterLazy ==
    /\ mpc = "start"
    /\ mpc' = "checkvcf"
    /\ UNCHANGED <<args, martDB, opened, protein_ids, variants, stderr, ret,
                   mexc, generated, pvars>>

\* line 182
CreateAdapter ==
    /\ mpc = "start"
    /\ IF LookupRaises(args.reference)
       THEN /\ mexc' = "KeyError"
            /\ mpc' = "raised"
            /\ martDB' = martDB
       ELSE /\ martDB' = MARTDBURL[Upper(args.reference)]
            /\ mpc' = "checkvcf"
            /\ mexc' = mexc
    /\ UNCHANGED <<args, opened, protein_ids, variants, stderr, ret, generated, pvars>>

\* lines 185-187
CheckVcf ==
    /\ mpc = "checkvcf"
    /\ IF args.vcf = "None"
       THEN /\ stderr' = Append(stderr, "At least a vcf file or a protein id file has to be provided.")
            /\ ret' = -1
            /\ mpc' = "exit"
       ELSE /\ mpc' = "proteins"
            /\ UNCHANGED <<stderr, ret>>
    /\ UNCHANGED <<args, martDB, opened, protein_ids, variants, mexc, generated, pvars>>

\* lines 191-197 (the files named on the command line exist and are readable)
ReadProteinIds ==
    /\ mpc = "proteins"
    /\ IF args.proteins # "None"
       THEN /\ opened' = opened \cup {args.proteins}
            /\ protein_ids' \in ProteinFiles
       ELSE /\ protein_ids' = <<>>
            /\ opened' = opened
    /\ mpc' = "read"
    /\ UNCHANGED <<args, martDB, variants, stderr, ret, mexc, generated, pvars>>

\* lines 199-206: the reader returns a list
ReadVariants ==
    /\ mpc = "read"
    /\ opened' = opened \cup {args.vcf}
    /\ variants' \in VariantLists
    /\ mpc' = "filter"
    /\ UNCHANGED <<args, martDB, protein_ids, stderr, ret, mexc, generated, pvars>>

\* line 200: read_variant_effect_predictor raises
ReadVariantsRaises ==
    /\ mpc = "read"
    /\ args.type = "VEP"
    /\ opened' = opened \cup {args.vcf}
    /\ mexc' \in ReaderErrors
    /\ mpc' = "raised"
    /\ UNCHANGED <<args, martDB, protein_ids, variants, stderr, ret, generated, pvars>>

\* lines 209-219
FilterVariants ==
    /\ mpc = "filter"
    /\ variants' = SelectedFilters(args, variants)
    /\ mpc' = "check"
    /\ UNCHANGED <<args, martDB, opened, protein_ids, stderr, ret, mexc, generated, pvars>>

\* lines 221-223
CheckEmpty ==
    /\ mpc = "check"
    /\ IF Len(variants) = 0
       THEN /\ stderr' = Append(stderr, "No variants left after filtering. Please refine your filtering criteria.")
            /\ ret' = -1
            /\ mpc' = "exit"
       ELSE /\ mpc' = "unknown"
            /\ UNCHANGED <<stderr, ret>>
    /\ UNCHANGED <<args, martDB, opened, protein_ids, variants, mexc, generated, pvars>>

\* line 225
FilterUnknown ==
    /\ mpc = "unknown"
    /\ variants' = RemoveUnknown(variants)
    /\ mpc' = "generate"
    /\ UNCHANGED <<args, martDB, opened, protein_ids, stderr, ret, mexc, generated, pvars>>

\* lines 228-232: generate_transcripts_from_variants(variants, martDB, ...)
GenerateTranscripts ==
    /\ mpc = "generate"
    /\ generated' = Append(generated, variants)
    /\ mpc' = "write"
    /\ UNCHANGED <<args, martDB, opened, protein_ids, variants, stderr, ret, mexc, pvars>>

\* line 236: open(output, "w") names a variable main never binds
WriteFasta ==
    /\ mpc = "write"
    /\ mexc' = "NameError"
    /\ mpc' = "raised"
    /\ UNCHANGED <<args, martDB, opened, protein_ids, variants, stderr, ret, generated, pvars>>

NextMain ==
    \/ CreateAdapter \/ CheckVcf \/ ReadProteinIds \/ ReadVariants
    \/ ReadVariantsRaises \/ FilterVariants \/ CheckEmpty \/ FilterUnknown
    \/ GenerateTranscripts \/ WriteFasta

SpecMain == InitMain /\ [][NextMain]_allvars

-----------------------------------------------------------------------------
(* Properties *)

\* n is a non-zero multiple of 3
TripleLength(n) == \E m \in 1..n : n = 3 * m

\* C1: get_type returns SNP exactly when both alleles have length 1; DEL
\* (FSDEL) exactly when ref is non-empty, alt is empty and |ref| is (is not)
\* a multiple of 3; INS (FSINS) exactly when ref is empty, alt is non-empty
\* and |alt| is (is not) a multiple of 3; UNKNOWN for every other pair of
\* lengths.
C1_GetTypeContract ==
    vtype # "none" =>
        LET r == Len(ref)
            a == Len(alt)
        IN  /\ vtype = "SNP" <=> (r = 1 /\ a = 1)
            /\ vtype = "DEL" <=> (r > 0 /\ a = 0 /\ TripleLength(r))
            /\ vtype = "FSDEL" <=> (r > 0 /\ a = 0 /\ ~TripleLength(r))
            /\ vtype = "INS" <=> (r = 0 /\ a > 0 /\ TripleLength(a))
            /\ vtype = "FSINS" <=> (r = 0 /\ a > 0 /\ ~TripleLength(a))
            /\ vtype = "UNKNOWN" <=>
                   ~(r = 1 /\ a = 1) /\ ~(r > 0 /\ a = 0) /\ ~(r = 0 /\ a > 0)

\* get_type has classified two two-letter alleles (as ref="AT", alt="GC")
C1_Witness == vtype = "UNKNOWN" /\ Len(ref) = 2 /\ Len(alt) = 2

\* the line just read is neither a comment nor blank and has fewer than 8
\* columns
ShortRecord(line) ==
    ~line.hash /\ line.cols # << <<>> >> /\ Len(line.cols) < 8

\* C9: a line that is neither a comment nor blank and has fewer than 8 tab
\* fields makes read_variant_effect_predictor raise: the caller gets no
\* list, the variants of earlier lines are lost and no later line is read;
\* comment and blank lines are skipped without error or effect.
C9_ShortLineRaises ==
    [][ /\ (pc = "loop" /\ i' = i + 1 /\ ShortRecord(l')) =>
              (pc' = "raised" /\ exc' = "ValueError" /\ result' = NoResult)
        /\ (pc = "loop" /\ i' = i + 1
              /\ (l'.hash \/ l'.cols = << <<>> >>)) =>
              (pc' = "loop" /\ exc' = "none" /\ vars' = vars
                 /\ warnings' = warnings /\ coding' = coding)
        /\ pc = "raised" => (i' = i /\ result' = NoResult /\ pc' = "raised")
      ]_allvars

\* the second line was short and the Variant of the first line is not returned
C9_Witness ==
    /\ pc = "raised" /\ exc = "ValueError" /\ i = 1
    /\ ShortRecord(l) /\ Len(vars) = 1 /\ result = NoResult

\* the reference selector, uppercased, is no key of the endpoint table
UnknownSelector == Upper(args.reference) \notin {GRCH37, GRCH38}

\* C10: with a reference selector that is no key of MARTDBURL, main ends
\* with KeyError before a file is opened and before anything is parsed,
\* also when no variant file was given.
C10_UnknownReferenceFirst ==
    (mpc # "idle" /\ UnknownSelector) =>
        /\ mpc \in {"start", "raised"}
        /\ mpc = "raised" => mexc = "KeyError"
        /\ opened = {} /\ protein_ids = <<>> /\ variants = <<>>
        /\ generated = <<>> /\ stderr = <<>> /\ ret = "none"

\* main has ended with KeyError on a command line without --vcf
C10_Witness ==
    /\ mpc = "raised" /\ mexc = "KeyError" /\ UnknownSelector
    /\ args.vcf = "None" /\ opened = {}

\* the Variants of vs whose type is not UNKNOWN, in order
RECURSIVE KnownOnly(_)
KnownOnly(vs) ==
    IF vs = <<>> THEN <<>>
    ELSE IF Head(vs).type = "UNKNOWN" THEN KnownOnly(Tail(vs))
    ELSE <<Head(vs)>> \o KnownOnly(Tail(vs))

\* C7: whatever the filter flags, the sequence main passes to transcript
\* generation holds no Variant of type UNKNOWN, and the UNKNOWN removal
\* removes exactly the UNKNOWN Variants.
C7_NoUnknownGenerated ==
    [][ /\ (mpc = "unknown" /\ mpc' # "unknown") =>
              variants' = KnownOnly(variants)
        /\ Len(generated') > Len(generated) =>
              /\ \A j \in 1..Len(variants) : variants[j].type # "UNKNOWN"
              /\ generated'[Len(generated')] = variants
      ]_allvars

\* transcript generation was called with the empty sequence: the sequence
\* passed the emptiness test and the UNKNOWN removal then emptied it
C7_Witness == mpc = "write" /\ generated = << <<>> >>

\* the step taken is one iteration of the loop over the sub-strings; it
\* handles info[k + 1]
SubStep == pc = "subs" /\ k' = k + 1

\* the step taken ends a line whose sub-strings were all handled
LineDone == pc = "subs" /\ pc' = "loop"

\* C2: a sub-string with fewer than 23 pipe fields is skipped with a warning
\* and nothing else: no exception, the loop goes on with the next sub-string
\* and line, and neither the transcript map, the flag nor the result change.
C2_MalformedSkipped ==
    [][ (SubStep /\ Len(info[k + 1]) < 23) =>
            /\ pc' = "subs" /\ exc' = "none"
            /\ warnings' = Append(warnings, i)
            /\ coding' = coding /\ isSynonymous' = isSynonymous
            /\ vars' = vars
      ]_allvars

\* co has the 23 fields, and its feature type is Transcript
TranscriptAnnotation(co) == Len(co) >= 23 /\ co[6] = <<"Transcript">>

\* co passes the gene filter gf, a list
PassesFilter(co, gf) == ~gf.isNone /\ (gf.ids = {} \/ co[23][1] \in gf.ids)

\* co carries the consequence term
Carries(co, term) == \E j \in 1..Len(co[2]) : co[2][j] = term

\* co is well-formed, a Transcript annotation, passes the gene filter and
\* carries a term of the coding vocabulary
Qualifies(co, gf) ==
    /\ TranscriptAnnotation(co)
    /\ PassesFilter(co, gf)
    /\ \E term \in coding_types : Carries(co, term)

\* the transcript-position field of co is empty or holds a "?"
Unpositioned(co) == co[14] = <<>> \/ \E j \in 1..Len(co[14]) : co[14][j] = "?"

\* the decimal number a position field starts with, -1 if it starts with none
RECURSIVE Leading(_, _)
Leading(s, acc) ==
    IF s = <<>> \/ Head(s) \notin Digits THEN acc
    ELSE Leading(Tail(s), 10 * (IF acc < 0 THEN 0 ELSE acc) + DigitVal(Head(s)))

\* the field is a number, or a number followed by "-" and more
Numbered(s) ==
    /\ Leading(s, -1) >= 0
    /\ \A j \in 1..Len(s) : (\A m \in 1..j : s[m] \in Digits) \/ (\E m \in 1..j : s[m] = "-")

Kept(co) ==
    \/ pc' = "subs" /\ isSynonymous' = Carries(co, "synonymous_variant")
    \/ pc' = "raised" /\ exc' = "ValueError"

\* C5: the gene filter is an allow-list on field 22: with a non-empty filter
\* a Transcript sub-string is discarded when its identifier is no member and
\* kept when it is; with the filter empty or left at its default None no
\* sub-string is discarded and no error is raised by the filter.
C5_GeneFilterAllowList ==
    [][ (SubStep /\ TranscriptAnnotation(info[k + 1])) =>
            LET co == info[k + 1]
            IN  IF ~gene_filter.isNone /\ gene_filter.ids # {}
                THEN IF co[23][1] \in gene_filter.ids
                     THEN Kept(co)
                     ELSE pc' = "subs" /\ coding' = coding
                          /\ isSynonymous' = isSynonymous
                ELSE Kept(co)
      ]_allvars

\* C6: the synonymous flag of an emitted Variant is true exactly when some
\* transcript annotation of its line (well-formed, of type Transcript,
\* passing the gene filter) carries "synonymous_variant", in any order.
C6_SynonymousAny ==
    [][ (LineDone /\ Len(vars') = Len(vars) + 1) =>
            vars'[Len(vars')].isSynonymous =
                (\E j \in 1..Len(info) :
                    /\ TranscriptAnnotation(info[j])
                    /\ PassesFilter(info[j], gene_filter)
                    /\ Carries(info[j], "synonymous_variant"))
      ]_allvars

\* C8: when the sequence left by the whole filter chain, UNKNOWN removal
\* included, is empty, main reports it and returns without calling
\* transcript generation: the generation is never called with an empty
\* sequence.
C8_EmptyNeverGenerated ==
    \A j \in 1..Len(generated) : Len(generated[j]) > 0

=============================================================================
